---- MODULE Spec2Model ----
(***************************************************************************)
(* Model of node-backend-server/index.js: one HTTP route whose handler     *)
(* resolves a table name through AWS Cloud Map and dispatches the          *)
(* "action" query parameter to a DynamoDB put / update / delete / scan.    *)
(*                                                                         *)
(* Every `await` of the source is a scheduling point: the code before it   *)
(* and the code after it are separate steps, and the steps of concurrent   *)
(* requests interleave.  A DynamoDB command acts on the table atomically,  *)
(* so one step stands for "the store executes the command, the promise     *)
(* settles and the handler runs on to its next await or to the response".  *)
(* Reads of the table (scan, get) see the writes that settled before them. *)
(***************************************************************************)
EXTENDS Integers, Sequences, FiniteSets, TLC

\* ------------------------------------------------------------------ bounds

\* Course ids sent by the clients are the decimal strings "0" .. MaxId.
MaxId == 1

\* The requests that may be in flight at the same time.
Req == {"r1", "r2"}

\* ------------------------------------------------------------ JavaScript values

undefined == [js |-> "undefined"]
\* A const that has not been initialised yet.
unassigned == [js |-> "unassigned"]
null == [js |-> "null"]
Str(s) == [js |-> "string", v |-> s]

\* Faulty variant of Falsy: the test `x === undefined` in place of `!x`.
Falsy_undefinedOnly(x) == x.js = "undefined"

\* !x for the values above: undefined, null and "" are falsy.
Falsy(x) == x.js \in {"undefined", "null"} \/ (x.js = "string" /\ x.v = "")

\* Number() yields NaN where the text is no number; no id of the model is negative.
NaN == 0 - 1

Digits == <<"0", "1", "2", "3", "4", "5", "6", "7", "8", "9">>

DigitVal(c) == (CHOOSE i \in 1..10 : Digits[i] = c) - 1

IsDigit(c) == \E i \in 1..10 : Digits[i] = c

RECURSIVE Decimal(_)
Decimal(s) == IF s = <<>> THEN 0
              ELSE 10 * Decimal(SubSeq(s, 1, Len(s) - 1)) + DigitVal(s[Len(s)])

\* Number(x) of a query parameter: a string of characters, or undefined when the
\* parameter is absent.  Number(undefined) is NaN, Number("") is 0.
Number(x) == IF x.js = "undefined" THEN NaN
             ELSE IF \A i \in 1..Len(x.v) : IsDigit(x.v[i]) THEN Decimal(x.v)
             ELSE NaN

\* The value of the hexadecimal digit c, or -1 when c is none.
HexVal(c) == IF IsDigit(c) THEN DigitVal(c)
             ELSE IF c \in {"A", "a"} THEN 10
             ELSE IF c \in {"B", "b"} THEN 11
             ELSE IF c \in {"C", "c"} THEN 12
             ELSE IF c \in {"D", "d"} THEN 13
             ELSE IF c \in {"E", "e"} THEN 14
             ELSE IF c \in {"F", "f"} THEN 15
             ELSE 0 - 1

\* The ASCII characters the escapes of the model's parameters spell.
AsciiChar(code) == CASE code = 34 -> "\""
                     [] code = 37 -> "%"
                     [] code = 47 -> "/"
                     [] code = 58 -> ":"
                     [] OTHER -> "?"

\* decodeURIComponent(s), s a sequence of characters: [ok |-> TRUE, v |-> decoded],
\* or ok = FALSE where the built-in throws URIError: a "%" that is not followed by
\* two hexadecimal digits, or an escaped octet >= 0x80 that starts no complete
\* UTF-8 sequence (no parameter of the model spells a multi-byte sequence).
RECURSIVE decodeURIComponent(_)
decodeURIComponent(s) ==
    IF s = <<>> THEN [ok |-> TRUE, v |-> <<>>]
    ELSE IF s[1] # "%"
         THEN LET rest == decodeURIComponent(Tail(s))
              IN  [ok |-> rest.ok, v |-> <<s[1]>> \o rest.v]
    ELSE IF Len(s) < 3 \/ HexVal(s[2]) < 0 \/ HexVal(s[3]) < 0
              \/ 16 * HexVal(s[2]) + HexVal(s[3]) >= 128
         THEN [ok |-> FALSE, v |-> <<>>]
    ELSE LET rest == decodeURIComponent(SubSeq(s, 4, Len(s)))
         IN  [ok |-> rest.ok,
              v |-> <<AsciiChar(16 * HexVal(s[2]) + HexVal(s[3]))>> \o rest.v]

\* obj.name of a query object: the parameter, or undefined when it is absent.
Param(q, name) == IF name \in DOMAIN q THEN Str(q[name]) ELSE undefined

\* `${x}` of a string or of undefined.
TemplateString(x) == IF x.js = "string" THEN x.v ELSE x.js

\* typeof x, for the values a query parameter takes.
TypeOf(x) == x.js

\* JSON.stringify of a list of items: an undefined element is written as null.
JSONList(list) == [i \in 1..Len(list) |-> IF list[i] = undefined THEN null ELSE list[i]]

\* ------------------------------------------------------------------ inputs

\* The ids of the model, and the id parameters the clients send for them: the
\* one-digit strings "0" .. MaxId.
Ids == 0..MaxId

IdParams == { <<Digits[i + 1]>> : i \in Ids }

\* The record fields the clients send with addCourse and editCourse; the URL
\* fields come percent-encoded ("%2F" is "/", "%3A" is ":") or plain.
Encoded == [courseName |-> "Algo", courseCoverArt |-> <<"%", "2", "F">>,
            courseUrl |-> <<"%", "3", "A">>, courseAuthor |-> "Ada"]

Plain == [courseName |-> "Nets", courseCoverArt |-> <<"x">>,
          courseUrl |-> <<"y">>, courseAuthor |-> "Bob"]

Payloads == {Encoded, Plain}

\* Record fields whose cover art is malformed: a "%" that starts no escape.
Malformed == [courseName |-> "Algo", courseCoverArt |-> <<"%">>,
              courseUrl |-> <<"x">>, courseAuthor |-> "Ada"]

EmptyQuery == <<>>

\* The query objects (req.query) of the model: a function from the names of the
\* parameters that are present to their values.  An unknown action, an empty
\* one and none; allCourses; removeCourse with each id and without; addCourse
\* and editCourse with each payload and id, without id, and malformed.
Queries ==
    {EmptyQuery}
    \cup { [action |-> a] : a \in {"allCourses", "bogus", "", "removeCourse"} }
    \cup { [action |-> "removeCourse", id |-> i] : i \in IdParams }
    \cup { p @@ [action |-> a, id |-> i] :
             p \in Payloads, a \in {"addCourse", "editCourse"}, i \in IdParams }
    \cup { Encoded @@ [action |-> a] :
             a \in {"addCourse", "editCourse"} }
    \cup { Malformed @@ [action |-> a, id |-> <<"0">>] :
             a \in {"addCourse", "editCourse"} }

\* What requestHandler may be called with: a query object, or nothing.
HandlerArgs == Queries \cup {undefined}

\* The answers of DiscoverInstances: the list response.Instances, each instance
\* the map of its attributes.
DiscoverOutputs ==
    { <<>>,
      << [name |-> "dynamodb-table", tablename |-> "courses"] >>,
      << [name |-> "dynamodb-table"] >> }

\* The message of the error a failing command of the store rejects with.
StoreErrorText == "ServiceUnavailable"

\* The message of the error a failing DiscoverInstances rejects with.
DiscoveryErrorText == "NamespaceNotFound"

\* lib-dynamodb refuses to marshall NaN, before anything is sent to the table.
NaNErrorText == "Special numeric value NaN is not allowed"

URIErrorText == "URI malformed"

\* ------------------------------------------------------------------- state

VARIABLES
    store,        \* the DynamoDB table: a function from the ID of each item to the item
    pc,           \* per request: the await the handler is suspended at, or "idle"
    query,        \* per request: the argument of requestHandler
    tableName,    \* per request: the table name getTableName returned
    pending,      \* per request: the keys of the scan whose getItemDB has not settled
    coursesList,  \* per request: coursesList of getAllItemsDB
    hist,         \* per request: what the request has done so far (history)
    ledger,       \* history of the table: what the successful commands did to each id
    reply         \* what the last step wrote to the network, with the history of the
                  \* request it ended

vars == <<store, pc, query, tableName, pending, coursesList, hist, ledger, reply>>

\* f without the key k.
Drop(f, k) == [x \in DOMAIN f \ {k} |-> f[x]]

\* The history of a request: the discovery calls made (lookups), whether one
\* rejected (rejected), whether one returned an instance (found: "pending",
\* "none" or "some"), the put, update, delete and scan commands sent (sent),
\* the get commands sent (gets), how the one command of the action ended (op:
\* "none" while it has not, "ok", or the message of its error), whether its key
\* was in the table (hit),
\* the keys the scan returned (scanned), the keys whose getItemDB returned null
\* (failed), the other keys in the order their getItemDB settled (fetched); and,
\* for an allCourses, the ids the ledger held as added (stable) and as removed
\* (absent) when the request came in, less the ids a successful put, update or
\* delete (stable) or a successful put (absent) has touched since.
NewHist == [lookups |-> 0, rejected |-> FALSE, found |-> "pending",
            sent |-> 0, gets |-> 0,
            op |-> "none", hit |-> FALSE,
            scanned |-> {}, failed |-> {}, fetched |-> <<>>,
            stable |-> {}, absent |-> {}]

NoReply == [written |-> FALSE]

Init ==
    /\ store = <<>>
    /\ pc = [r \in Req |-> "idle"]
    /\ query = [r \in Req |-> undefined]
    /\ tableName = [r \in Req |-> unassigned]
    /\ pending = [r \in Req |-> {}]
    /\ coursesList = [r \in Req |-> <<>>]
    /\ hist = [r \in Req |-> NewHist]
    /\ ledger = [keeps |-> "added", added |-> <<>>, removed |-> {}]
    /\ reply = NoReply

\* The same, with the ledger keeping the removals in place of the additions.
InitRemovals ==
    /\ store = <<>>
    /\ pc = [r \in Req |-> "idle"]
    /\ query = [r \in Req |-> undefined]
    /\ tableName = [r \in Req |-> unassigned]
    /\ pending = [r \in Req |-> {}]
    /\ coursesList = [r \in Req |-> <<>>]
    /\ hist = [r \in Req |-> NewHist]
    /\ ledger = [keeps |-> "removed", added |-> <<>>, removed |-> {}]
    /\ reply = NoReply

\* ------------------------------------------------------- Table Resolver

\* getTableName, after the await: the tablename attribute of the first instance
\* (undefined when the instance carries none), or null when there is no instance.
getTableName(instances) ==
    IF Len(instances) >= 1 THEN Param(instances[1], "tablename") ELSE null

\* ------------------------------------------------- Record Store Adapter

\* Faulty variant of PutCommand: the URL fields are stored as submitted, not decoded.
PutCommand_raw(courseObject) ==
    [ok |-> decodeURIComponent(courseObject.courseCoverArt).ok
              /\ decodeURIComponent(courseObject.courseUrl).ok,
     Item |-> [ID |-> Number(Param(courseObject, "id")),
               CourseName |-> courseObject.courseName,
               CoverArt |-> courseObject.courseCoverArt,
               CourseUrl |-> courseObject.courseUrl,
               Author |-> courseObject.courseAuthor]]

\* The PutCommand putItemDB builds.  ok is FALSE when decodeURIComponent throws,
\* which the function's catch turns into {error: err.message}.
PutCommand(courseObject) ==
    LET art == decodeURIComponent(courseObject.courseCoverArt)
        url == decodeURIComponent(courseObject.courseUrl)
    IN  [ok |-> art.ok /\ url.ok,
         Item |-> [ID |-> Number(Param(courseObject, "id")),
                   CourseName |-> courseObject.courseName,
                   CoverArt |-> art.v,
                   CourseUrl |-> url.v,
                   Author |-> courseObject.courseAuthor]]

\* The UpdateCommand updateItemDB builds: the key and the ExpressionAttributeValues.
UpdateCommand(courseObject) ==
    LET art == decodeURIComponent(courseObject.courseCoverArt)
        url == decodeURIComponent(courseObject.courseUrl)
    IN  [ok |-> art.ok /\ url.ok,
         Key |-> Number(Param(courseObject, "id")),
         name |-> courseObject.courseName,
         coverart |-> art.v,
         url |-> url.v,
         author |-> courseObject.courseAuthor]

\* The table after a PutCommand: the item replaces the one of the same ID.
PutItem(tbl, item) == (item.ID :> item) @@ tbl

\* Faulty variant of UpdateItem: :url and :coverart are bound the wrong way round.
UpdateItem_swapped(tbl, cmd) ==
    LET old == IF cmd.Key \in DOMAIN tbl THEN tbl[cmd.Key] ELSE [ID |-> cmd.Key]
    IN  (cmd.Key :> ([CourseName |-> cmd.name, CourseUrl |-> cmd.coverart,
                      CoverArt |-> cmd.url, Author |-> cmd.author] @@ old))
        @@ tbl

\* The table after the UpdateCommand "SET CourseName = :name, CourseUrl = :url,
\* CoverArt = :coverart, Author = :author".  The command carries no
\* ConditionExpression, so DynamoDB creates the item when the key is new.
UpdateItem(tbl, cmd) ==
    LET old == IF cmd.Key \in DOMAIN tbl THEN tbl[cmd.Key] ELSE [ID |-> cmd.Key]
    IN  (cmd.Key :> ([CourseName |-> cmd.name, CourseUrl |-> cmd.url,
                      CoverArt |-> cmd.coverart, Author |-> cmd.author] @@ old))
        @@ tbl

\* The table after a DeleteCommand: deleting a key that is absent changes nothing.
DeleteItem(tbl, key) == Drop(tbl, key)

\* The output of a GetCommand: it carries Item only when the key is in the table.
GetOutput(tbl, key) ==
    IF key \in DOMAIN tbl THEN [metadata |-> 200, Item |-> tbl[key]]
    ELSE [metadata |-> 200]

\* course.Item
ItemOf(course) == IF "Item" \in DOMAIN course THEN course.Item ELSE undefined

\* The keys a ScanCommand with ProjectionExpression "ID" returns.
ScanKeys(tbl) == DOMAIN tbl

\* getItemDB's first test, `!id && id !== 0`, on a number: NaN is the only falsy
\* number that is not 0.
MissingId(id) == id = NaN

\* What getItemDB(id) returns: null without a call when the id is missing, null
\* when the command fails, else the command's output.
getItemDB(tbl, id, ok) ==
    IF MissingId(id) \/ ~ok THEN null ELSE GetOutput(tbl, id)

\* lib-dynamodb marshalls the key before it sends a command: NaN is refused.
Marshalls(key) == key # NaN

\* ------------------------------------------------------- List Aggregator

\* The callback of response.Items.map: `if (course) coursesList.push(course.Item)`.
PushCourse(list, course) ==
    IF course # null THEN Append(list, ItemOf(course)) ELSE list

\* Faulty variant of AllSettled: the list is returned without awaiting Promise.all.
AllSettled_notAwaited(left) == TRUE

\* Promise.all resolves when the getItemDB of every key has settled.
AllSettled(left) == left = {}

\* ---------------------------------------------------------- Action Router

ErrorBody(msg) == [success |-> FALSE, error |-> msg]

\* requestHandler's answer to a missing query.
NoQueryResponse ==
    [statusCode |-> 400,
     body |-> ErrorBody(<<"Invalid Request: Action not provided">>)]

\* requestHandler's answer when getTableName found no table.
NoTableResponse ==
    [statusCode |-> 500,
     body |-> ErrorBody(<<"Internal Server Error: Could not find the Database">>)]

\* Faulty variant of UnknownActionResponse: the message leaves out typeof requestAction.
UnknownActionResponse_noType(requestAction) ==
    [statusCode |-> 400,
     body |-> ErrorBody(<<"Invalid Request: Action ", TemplateString(requestAction),
                          " not found">>)]

\* The default case of the switch.
UnknownActionResponse(requestAction) ==
    [statusCode |-> 400,
     body |-> ErrorBody(<<"Invalid Request: Action ", TemplateString(requestAction),
                          " ", TypeOf(requestAction), " not found">>)]

\* Faulty variant of HasError: the test reads a field the result never has.
HasError_never(result) == "Error" \in DOMAIN result

\* result.error is truthy
HasError(result) == "error" \in DOMAIN result /\ result.error # ""

\* The answer of the cases addCourse, editCourse and removeCourse to the result
\* of their store function.
ActionResponse(requestAction, result) ==
    IF HasError(result)
    THEN [statusCode |-> 500,
          body |-> ErrorBody(<<"Unable to process request for ", requestAction,
                               ": ", result.error>>)]
    ELSE [statusCode |-> 200, body |-> [success |-> TRUE, action |-> requestAction]]

\* The answer of the case allCourses to the result of getAllItemsDB: the list,
\* or {error: ...}.
AllCoursesResponse(requestAction, result) ==
    IF HasError(result)
    THEN [statusCode |-> 500,
          body |-> ErrorBody(<<"Unable to process request for ", requestAction,
                               ": ", result.error>>)]
    ELSE [statusCode |-> 200,
          body |-> [success |-> TRUE, action |-> requestAction,
                    allCourses |-> JSONList(result.list)]]

\* The switch of requestHandler up to its next await: the command it sends
\* (next), or the answer it returns at once (next = "done").
Dispatch(requestData) ==
    LET requestAction == Param(requestData, "action")
        uri == [error |-> URIErrorText]
    IN  CASE requestAction = Str("allCourses") -> [next |-> "scan"]
          [] requestAction = Str("addCourse") ->
               IF PutCommand(requestData).ok THEN [next |-> "put"]
               ELSE [next |-> "done", resObj |-> ActionResponse("addCourse", uri)]
          [] requestAction = Str("editCourse") ->
               IF UpdateCommand(requestData).ok THEN [next |-> "update"]
               ELSE [next |-> "done", resObj |-> ActionResponse("editCourse", uri)]
          [] requestAction = Str("removeCourse") -> [next |-> "delete"]
          [] OTHER -> [next |-> "done",
                       resObj |-> UnknownActionResponse(requestAction)]

\* ------------------------------------------------------------ HTTP Gateway

Returned(resObj) == [threw |-> FALSE, resObj |-> resObj]
Thrown(err) == [threw |-> TRUE, err |-> err]

\* Faulty variant of Gateway: the catch answers 500 in place of 404.
Gateway_catch500(outcome) ==
    IF outcome.threw
    THEN << [status |-> 500,
             body |-> [message |-> <<"API server not reachable ", outcome.err>>]] >>
    ELSE << [status |-> outcome.resObj.statusCode, body |-> outcome.resObj.body] >>

\* The route's try/catch: the responses it writes for the outcome of
\* requestHandler, one res.status(..).send(..) each.  The next() that follows
\* finds no other route and writes nothing, the headers being sent.
Gateway(outcome) ==
    IF outcome.threw
    THEN << [status |-> 404,
             body |-> [message |-> <<"API server not reachable ", outcome.err>>]] >>
    ELSE IF outcome.resObj = undefined
    THEN << [status |-> 404,
             body |-> [message |-> <<"Failed API server not reachable">>]] >>
    ELSE << [status |-> outcome.resObj.statusCode, body |-> outcome.resObj.body] >>

\* ----------------------------------------------------------------- history

\* The ledger after a successful command of the given kind on key k.  It keeps
\* one of two histories: under Spec (keeps = "added"), added maps an id to the
\* query of the addCourse whose put was the last successful command on it;
\* under SpecRemovals (keeps = "removed"), removed holds the ids that a delete
\* took out of the table and that no put has written since.
LedgerAfter(kind, k, q) ==
    CASE kind = "put" ->
           [ledger EXCEPT
              !.added = IF ledger.keeps = "added" THEN (k :> q) @@ @ ELSE @,
              !.removed = @ \ {k}]
      [] kind = "update" ->
           [ledger EXCEPT !.added = Drop(@, k)]
      [] kind = "delete" ->
           [ledger EXCEPT
              !.added = Drop(@, k),
              !.removed = IF ledger.keeps = "removed" /\ k \in DOMAIN store
                          THEN @ \cup {k} ELSE @]

\* The histories after a successful command of the given kind on key k: k is no
\* longer stable for any request, and a put ends its absence.
HistAfter(kind, k) ==
    [r \in Req |->
        [hist[r] EXCEPT !.stable = @ \ {k},
                        !.absent = IF kind = "put" THEN @ \ {k} ELSE @]]

\* ----------------------------------------------------------------- actions

\* The route's handler ends: the gateway writes for the outcome of
\* requestHandler, and the request is over.
Finish(r, action, outcome, tn, h) ==
    /\ reply' = [written |-> TRUE, action |-> action, tableName |-> tn,
                 hist |-> h[r], writes |-> Gateway(outcome)]
    /\ pc' = [pc EXCEPT ![r] = "idle"]
    /\ query' = [query EXCEPT ![r] = undefined]
    /\ tableName' = [tableName EXCEPT ![r] = unassigned]
    /\ pending' = [pending EXCEPT ![r] = {}]
    /\ coursesList' = [coursesList EXCEPT ![r] = <<>>]
    /\ hist' = [h EXCEPT ![r] = NewHist]

\* app.all('/') receives a request and calls requestHandler(q), which runs to
\* the await of getTableName: a missing query is answered at once.
Receive(r, q) ==
    /\ pc[r] = "idle"
    /\ IF q = undefined
       THEN Finish(r, unassigned, Returned(NoQueryResponse), unassigned, hist)
       ELSE /\ pc' = [pc EXCEPT ![r] = "discover"]
            /\ query' = [query EXCEPT ![r] = q]
            /\ hist' = [hist EXCEPT
                 ![r].lookups = @ + 1,
                 ![r].stable = IF Param(q, "action") = Str("allCourses")
                               THEN DOMAIN ledger.added ELSE {},
                 ![r].absent = IF Param(q, "action") = Str("allCourses")
                               THEN ledger.removed ELSE {}]
            /\ reply' = NoReply
            /\ UNCHANGED <<tableName, pending, coursesList>>
    /\ UNCHANGED <<store, ledger>>

\* cloudMapClient.send rejects: the exception leaves getTableName and
\* requestHandler uncaught, and the route's catch answers.
DiscoverThrow(r) ==
    /\ pc[r] = "discover"
    /\ Finish(r, Param(query[r], "action"), Thrown(DiscoveryErrorText), unassigned,
              [hist EXCEPT ![r].rejected = TRUE])
    /\ UNCHANGED <<store, ledger>>

\* cloudMapClient.send resolves: getTableName returns and requestHandler runs to
\* its next await, the command of the action, or to its answer.
DiscoverReturn(r, instances) ==
    /\ pc[r] = "discover"
    /\ LET tn == getTableName(instances)
           d == Dispatch(query[r])
           h == [hist EXCEPT ![r].found = IF instances = <<>> THEN "none" ELSE "some"]
       IN  IF Falsy(tn)
           THEN Finish(r, Param(query[r], "action"), Returned(NoTableResponse), tn, h)
           ELSE IF d.next = "done"
           THEN Finish(r, Param(query[r], "action"), Returned(d.resObj), tn, h)
           ELSE /\ pc' = [pc EXCEPT ![r] = d.next]
                /\ tableName' = [tableName EXCEPT ![r] = tn]
                /\ hist' = [h EXCEPT ![r].sent = @ + 1]
                /\ reply' = NoReply
                /\ UNCHANGED <<query, pending, coursesList>>
    /\ UNCHANGED <<store, ledger>>

\* What a command on the given key resolves or rejects with.
CommandResult(key, done, output) ==
    IF done THEN output
    ELSE IF Marshalls(key) THEN [error |-> StoreErrorText]
    ELSE [error |-> NaNErrorText]

\* The history after the one command of request r, on the given key, has ended.
Ended(r, kind, key, done) ==
    [(IF done THEN HistAfter(kind, key) ELSE hist) EXCEPT
        ![r].op = IF done THEN "ok" ELSE CommandResult(key, done, <<>>).error,
        ![r].hit = key \in DOMAIN store]

\* The PutCommand of putItemDB settles; addCourse answers.
StorePut(r, ok) ==
    /\ pc[r] = "put"
    /\ LET item == PutCommand(query[r]).Item
           done == ok /\ Marshalls(item.ID)
           result == CommandResult(item.ID, done, [metadata |-> 200])
       IN  /\ store' = IF done THEN PutItem(store, item) ELSE store
           /\ ledger' = IF done THEN LedgerAfter("put", item.ID, query[r]) ELSE ledger
           /\ Finish(r, Param(query[r], "action"),
                     Returned(ActionResponse(query[r].action, result)),
                     tableName[r], Ended(r, "put", item.ID, done))

\* The UpdateCommand of updateItemDB settles; editCourse answers.
StoreUpdate(r, ok) ==
    /\ pc[r] = "update"
    /\ LET cmd == UpdateCommand(query[r])
           done == ok /\ Marshalls(cmd.Key)
           result == CommandResult(cmd.Key, done,
                                   [Attributes |-> UpdateItem(store, cmd)[cmd.Key]])
       IN  /\ store' = IF done THEN UpdateItem(store, cmd) ELSE store
           /\ ledger' = IF done THEN LedgerAfter("update", cmd.Key, <<>>) ELSE ledger
           /\ Finish(r, Param(query[r], "action"),
                     Returned(ActionResponse(query[r].action, result)),
                     tableName[r], Ended(r, "update", cmd.Key, done))

\* The DeleteCommand of deleteItemDB settles; removeCourse answers.
StoreDelete(r, ok) ==
    /\ pc[r] = "delete"
    /\ LET courseId == Number(Param(query[r], "id"))
           done == ok /\ Marshalls(courseId)
           result == CommandResult(courseId, done, [metadata |-> 200])
       IN  /\ store' = IF done THEN DeleteItem(store, courseId) ELSE store
           /\ ledger' = IF done THEN LedgerAfter("delete", courseId, <<>>) ELSE ledger
           /\ Finish(r, Param(query[r], "action"),
                     Returned(ActionResponse(query[r].action, result)),
                     tableName[r], Ended(r, "delete", courseId, done))

\* The ScanCommand of getAllItemsDB settles: a failure is answered; otherwise
\* one getItemDB per key is started, and with no key the list is answered.
StoreScan(r, ok) ==
    /\ pc[r] = "scan"
    /\ LET keys == IF ok THEN ScanKeys(store) ELSE {}
           result == IF ok THEN [list |-> <<>>] ELSE [error |-> StoreErrorText]
           h == [hist EXCEPT ![r].op = IF ok THEN "ok" ELSE StoreErrorText,
                             ![r].scanned = keys,
                             ![r].gets = Cardinality({k \in keys : ~MissingId(k)})]
       IN  IF ok /\ ~AllSettled(keys)
           THEN /\ pc' = [pc EXCEPT ![r] = "fetch"]
                /\ pending' = [pending EXCEPT ![r] = keys]
                /\ hist' = h
                /\ reply' = NoReply
                /\ UNCHANGED <<query, tableName, coursesList>>
           ELSE Finish(r, Param(query[r], "action"),
                       Returned(AllCoursesResponse(query[r].action, result)),
                       tableName[r], h)
    /\ UNCHANGED <<store, ledger>>

\* The GetCommand of one getItemDB settles, in any order among the pending ones;
\* when it is the last, Promise.all resolves and allCourses answers.
StoreGet(r, k, ok) ==
    /\ pc[r] = "fetch"
    /\ k \in pending[r]
    /\ LET course == getItemDB(store, k, ok)
           list == PushCourse(coursesList[r], course)
           left == pending[r] \ {k}
           h == [hist EXCEPT
                   ![r].failed = IF course = null THEN @ \cup {k} ELSE @,
                   ![r].fetched = IF course = null THEN @ ELSE Append(@, k)]
       IN  IF AllSettled(left)
           THEN Finish(r, Param(query[r], "action"),
                       Returned(AllCoursesResponse(query[r].action, [list |-> list])),
                       tableName[r], h)
           ELSE /\ coursesList' = [coursesList EXCEPT ![r] = list]
                /\ pending' = [pending EXCEPT ![r] = left]
                /\ hist' = h
                /\ reply' = NoReply
                /\ UNCHANGED <<pc, query, tableName>>
    /\ UNCHANGED <<store, ledger>>

Next ==
    \/ \E r \in Req, q \in HandlerArgs : Receive(r, q)
    \/ \E r \in Req : DiscoverThrow(r)
    \/ \E r \in Req, instances \in DiscoverOutputs : DiscoverReturn(r, instances)
    \/ \E r \in Req, ok \in BOOLEAN : StorePut(r, ok)
    \/ \E r \in Req, ok \in BOOLEAN : StoreUpdate(r, ok)
    \/ \E r \in Req, ok \in BOOLEAN : StoreDelete(r, ok)
    \/ \E r \in Req, ok \in BOOLEAN : StoreScan(r, ok)
    \/ \E r \in Req, k \in Ids, ok \in BOOLEAN : StoreGet(r, k, ok)

Spec == Init /\ [][Next]_vars

SpecRemovals == InitRemovals /\ [][Next]_vars

\* ------------------------------------------------------------------ claims

\* The response the last step wrote, and its parts.
Written == reply.written
Status == reply.writes[1].status
Body == reply.writes[1].body

Known == {Str("allCourses"), Str("addCourse"), Str("editCourse"), Str("removeCourse")}

\* The last step answered an allCourses request with 200.
Listed == Written /\ reply.action = Str("allCourses") /\ Status = 200

\* The table name resolved: getTableName returned a non-empty string.
Resolved == reply.tableName.js = "string" /\ reply.tableName.v # ""

\* The record an addCourse with query q is to leave in the table: the id as a
\* number, the two URL fields percent-decoded, the other two as submitted.
Expected(q) ==
    [ID |-> Number(Param(q, "id")),
     CourseName |-> q.courseName,
     CoverArt |-> decodeURIComponent(q.courseCoverArt).v,
     CourseUrl |-> decodeURIComponent(q.courseUrl).v,
     Author |-> q.courseAuthor]

\* C1: when the discovery lookup of a request returns no instance, the request
\* is answered 500 whatever its action, and it has sent no command to the
\* store: no put, update, delete or scan, and no get.
C1_NoInstanceIs500 ==
    (Written /\ reply.hist.found = "none") =>
        /\ reply.tableName = null
        /\ Status = 500
        /\ Body.success = FALSE
        /\ reply.hist.sent = 0
        /\ reply.hist.gets = 0

\* A well-formed addCourse was answered 500 because no instance was found.
C1_Witness ==
    /\ Written
    /\ reply.hist.found = "none"
    /\ reply.action = Str("addCourse")
    /\ Status = 500

\* C2, as claimed: a request whose action is none of the four (the empty string
\* and an omitted action included) is answered 400, with success = false and an
\* error naming the action and its type, whatever the discovery service does.
C2_UnknownActionAlways400 ==
    (Written /\ reply.hist.lookups = 1 /\ reply.action \notin Known) =>
        /\ Status = 400
        /\ Body.success = FALSE
        /\ Body.error = <<"Invalid Request: Action ",
                          IF reply.action.js = "string" THEN reply.action.v
                          ELSE "undefined",
                          " ", reply.action.js, " not found">>

\* C2, amended: a request with a query object whose action is none of the four
\* is answered 400, with success = false and an error naming the action and its
\* type, when the discovery lookup resolves a table name.
C2_UnknownActionIs400 ==
    (Written /\ Resolved /\ reply.action \notin Known) =>
        /\ Status = 400
        /\ Body.success = FALSE
        /\ Body.error = <<"Invalid Request: Action ",
                          IF reply.action.js = "string" THEN reply.action.v
                          ELSE "undefined",
                          " ", reply.action.js, " not found">>

\* A request without action was answered 400 with the table resolved.
C2_Witness ==
    /\ Written
    /\ Resolved
    /\ reply.action = undefined
    /\ Status = 400
    /\ Body.error[2] = "undefined"

\* C3, as claimed: a 200 allCourses lists, for every id that an addCourse
\* answered 200 had put before the allCourses came in and that no successful
\* put, update or delete has touched since that put, the record the addCourse
\* submitted, its URL fields decoded; and it lists no id twice.
C3_AddedIsAlwaysListed ==
    Listed =>
        /\ \A id \in reply.hist.stable :
              \E i \in 1..Len(Body.allCourses) :
                  Body.allCourses[i] = Expected(ledger.added[id])
        /\ \A i, j \in 1..Len(Body.allCourses) :
              (i < j /\ Body.allCourses[i] # null /\ Body.allCourses[j] # null)
                  => Body.allCourses[i].ID # Body.allCourses[j].ID

\* C3, amended: as claimed, for the ids whose getItemDB did not fail within the
\* allCourses request (a failed one is dropped from the list and the request is
\* still answered 200).
C3_AddedIsListed ==
    Listed =>
        /\ \A id \in reply.hist.stable \ reply.hist.failed :
              \E i \in 1..Len(Body.allCourses) :
                  Body.allCourses[i] = Expected(ledger.added[id])
        /\ \A i, j \in 1..Len(Body.allCourses) :
              (i < j /\ Body.allCourses[i] # null /\ Body.allCourses[j] # null)
                  => Body.allCourses[i].ID # Body.allCourses[j].ID

\* The scenario of the specification: the addCourse with id 1 and the encoded
\* URL fields was answered, and a later allCourses lists its decoded record.
C3_Witness ==
    /\ Listed
    /\ 1 \in reply.hist.stable \ reply.hist.failed
    /\ ledger.added[1] = Encoded @@ [action |-> "addCourse", id |-> <<"1">>]
    /\ \E i \in 1..Len(Body.allCourses) :
          Body.allCourses[i] = [ID |-> 1, CourseName |-> "Algo", CoverArt |-> <<"/">>,
                                CourseUrl |-> <<":">>, Author |-> "Ada"]

\* C4: the step in which the update of an editCourse on an id of the table
\* succeeds sets the four non-key fields of that item to the submitted values
\* (the URL fields decoded), keeps its ID, changes no other item, and a get of
\* the id then returns the new item; the request is answered 200.
C4_EditReplacesFourFields ==
    [][\A r \in Req :
         (/\ pc[r] = "update"
          /\ pc'[r] = "idle"
          /\ reply'.hist.op = "ok"
          /\ Number(Param(query[r], "id")) \in DOMAIN store)
         => LET k == Number(Param(query[r], "id"))
                new == [ID |-> store[k].ID,
                        CourseName |-> query[r].courseName,
                        CoverArt |-> decodeURIComponent(query[r].courseCoverArt).v,
                        CourseUrl |-> decodeURIComponent(query[r].courseUrl).v,
                        Author |-> query[r].courseAuthor]
            IN  /\ store' = [store EXCEPT ![k] = new]
                /\ new.ID = k
                /\ ItemOf(getItemDB(store', k, TRUE)) = new
                /\ reply'.writes[1].status = 200]_vars

\* An editCourse on an id of the table was answered 200, and the item differs
\* from every record the other payload would have left.
C4_Witness ==
    /\ Written
    /\ reply.action = Str("editCourse")
    /\ reply.hist.hit
    /\ Status = 200
    /\ \E k \in DOMAIN store : store[k].CoverArt = <<"/">> /\ store[k].CourseUrl = <<":">>

\* C5, as claimed: an id that a removeCourse answered 200 had taken out of the
\* table before an allCourses came in, and that no addCourse has put back, is
\* not in the list the allCourses answers with.
C5_RemovedIsNotListed ==
    Listed =>
        \A id \in reply.hist.absent :
            \A i \in 1..Len(Body.allCourses) :
                Body.allCourses[i] # null => Body.allCourses[i].ID # id

\* C6: an allCourses whose scan succeeded is answered 200 with success = true,
\* only when the getItemDB of every scanned key has settled; the list has one
\* entry per key whose getItemDB did not fail, in the order they settled, and
\* none for a failed one: N - k entries for k failures among N keys.
C6_ListHasNMinusK ==
    (Written /\ reply.action = Str("allCourses") /\ reply.hist.op = "ok") =>
        /\ Status = 200
        /\ Body.success = TRUE
        /\ reply.hist.failed \cup {reply.hist.fetched[i] :
                                     i \in 1..Len(reply.hist.fetched)}
             = reply.hist.scanned
        /\ Len(Body.allCourses)
             = Cardinality(reply.hist.scanned) - Cardinality(reply.hist.failed)
        /\ Len(Body.allCourses) = Len(reply.hist.fetched)
        /\ \A i \in 1..Len(Body.allCourses) :
              /\ reply.hist.fetched[i] \notin reply.hist.failed
              /\ Body.allCourses[i] # null
                   => Body.allCourses[i].ID = reply.hist.fetched[i]

\* One getItemDB of two failed: the list has one entry and the answer is 200.
C6_Witness ==
    /\ Listed
    /\ Cardinality(reply.hist.scanned) = 2
    /\ Cardinality(reply.hist.failed) = 1
    /\ Len(Body.allCourses) = 1

\* C7, as claimed: a request whose query is empty is answered 400 "Action not
\* provided" by the first step of requestHandler, before any discovery lookup.
C7_EmptyQueryNotProvided ==
    [][\A r \in Req :
         (pc[r] # "idle" /\ pc'[r] = "idle" /\ query[r] = EmptyQuery)
         => /\ reply'.writes[1].status = 400
            /\ reply'.writes[1].body.error = <<"Invalid Request: Action not provided">>
            /\ reply'.hist.lookups = 0]_vars

\* C8: with the table resolved, a request of one of the four actions has sent at
\* most one put, update, delete or scan; when that command failed the answer is
\* 500 with success = false and an error holding the action and the text of the
\* command's error; and the answer is 200 only when the command succeeded.
C8_StoreFailureIs500 ==
    (Written /\ Resolved /\ reply.action \in Known) =>
        /\ reply.hist.sent <= 1
        /\ reply.hist.op # "none" => reply.hist.sent = 1
        /\ reply.hist.op \notin {"none", "ok"} =>
              /\ Status = 500
              /\ Body.success = FALSE
              /\ Body.error = <<"Unable to process request for ", reply.action.v,
                                ": ", reply.hist.op>>
        /\ Status = 200 => reply.hist.op = "ok"

\* The put of an addCourse failed at the store and the answer was 500.
C8_Witness ==
    /\ Written
    /\ Resolved
    /\ reply.action = Str("addCourse")
    /\ reply.hist.op = StoreErrorText
    /\ Status = 500

\* C9: every request is answered by exactly one response, with a status among
\* 200, 400, 500 and 404; a discovery call that rejects is answered 404 with no
\* command sent to the store, and a discovery call that finds no instance 500.
C9_DiscoveryFailureIs404 ==
    Written =>
        /\ Len(reply.writes) = 1
        /\ Status \in {200, 400, 500, 404}
        /\ reply.hist.rejected =>
              /\ Status = 404
              /\ reply.hist.sent = 0
              /\ reply.hist.gets = 0
        /\ reply.hist.found = "none" => Status = 500

\* A discovery call rejected and the request was answered 404.
C9_Witness ==
    /\ Written
    /\ reply.hist.rejected
    /\ Status = 404
    /\ Body.message[2] = DiscoveryErrorText

\* C10, as claimed: every entry of a 200 allCourses list is a complete record
\* stored under a key the scan returned, never an absent one.
C10_NoAbsentEntry ==
    Listed =>
        \A i \in 1..Len(Body.allCourses) :
            /\ Body.allCourses[i] # null
            /\ DOMAIN Body.allCourses[i]
                 = {"ID", "CourseName", "CoverArt", "CourseUrl", "Author"}
            /\ Body.allCourses[i].ID \in reply.hist.scanned

====
